---- MODULE Spec2Model ----
(***************************************************************************)
(* The debate orchestration graph of the MAD framework                     *)
(* (src/src/mad/core/graph.py) with the moderator's and judge's response   *)
(* parsers (src/src/mad/agents/moderator.py, judge.py).                    *)
(*                                                                         *)
(* Conventions.  Floats in [0,1] are kept in hundredths (0.8 is 80, 0.5 is *)
(* 50); costs are kept in integer units.  A Python value is a tagged       *)
(* record [ty, n, l]; a response text is a sequence of lexemes, so that    *)
(* find / rfind / slicing / json.loads are computed on it.                 *)
(***************************************************************************)
EXTENDS Integers, Sequences, FiniteSets, TLC

\* ------------------------------------------------------------------ bounds
MaxRounds == 3
MaxDebaters == 3
MaxEntries == 3
MantissaBits == 3

\* ------------------------------------------------------- Python values
None == [ty |-> "None", n |-> 0, l |-> <<>>]
Num(x) == [ty |-> "num", n |-> x, l |-> <<>>]
Bool(b) == [ty |-> "bool", n |-> IF b THEN 1 ELSE 0, l |-> <<>>]
Str(s) == [ty |-> "str", n |-> 0, l |-> s]
List(s) == [ty |-> "list", n |-> 0, l |-> s]
Dict(f) == [ty |-> "dict", n |-> 0, l |-> f]

\* lexemes of a response text
Lex(t, k, v) == [t |-> t, k |-> k, v |-> v]
LB == Lex("{", "", None)
RB == Lex("}", "", None)
TXT(w) == Lex("txt", w, None)
KV(k, v) == Lex("kv", k, v)

\* dict.get(key, default)
Get(d, k, default) == IF k \in DOMAIN d.l THEN d.l[k] ELSE default

\* Python truthiness (the operand of `not`)
Truthy(v) ==
    CASE v.ty = "None" -> FALSE
      [] v.ty = "num" -> v.n # 0
      [] v.ty = "bool" -> v.n = 1
      [] v.ty = "str" -> Len(v.l) > 0
      [] v.ty = "list" -> Len(v.l) > 0
      [] OTHER -> DOMAIN v.l # {}

\* the operand types for which `x >= <float>` does not raise TypeError
Comparable(v) == v.ty \in {"num", "bool"}
\* numeric value in hundredths (True is 1.0, False is 0.0)
NumOf(v) == IF v.ty = "bool" THEN 100 * v.n ELSE v.n

\* ------------------------------------------------- str.find / str.rfind
find(content, t) ==
    IF \E j \in 1..Len(content) : content[j].t = t
    THEN (CHOOSE j \in 1..Len(content) :
             /\ content[j].t = t
             /\ \A h \in 1..(j - 1) : content[h].t # t) - 1
    ELSE -1

rfind(content, t) ==
    IF \E j \in 1..Len(content) : content[j].t = t
    THEN (CHOOSE j \in 1..Len(content) :
             /\ content[j].t = t
             /\ \A h \in (j + 1)..Len(content) : content[h].t # t) - 1
    ELSE -1

\* content[start:end]
Slice(content, start, end) == SubSeq(content, start + 1, end)

\* json.loads raises JSONDecodeError unless the text is one object
JSONDecodeError(s) ==
    ~ /\ Len(s) >= 2
      /\ s[1].t = "{"
      /\ s[Len(s)].t = "}"
      /\ \A j \in 2..(Len(s) - 1) : s[j].t = "kv"

\* json.loads of one object: the last occurrence of a key wins
json_loads(s) ==
    LET keys == {s[j].k : j \in 2..(Len(s) - 1)}
        last(k) == CHOOSE j \in 2..(Len(s) - 1) :
                      /\ s[j].k = k
                      /\ \A h \in (j + 1)..(Len(s) - 1) : s[h].k # k
    IN Dict([k \in keys |-> s[last(k)].v])

\* ------------------------------------------------------------ moderator
\* mutant: the fallback asks to stop (fail-closed)
ModerationFallback_FailClosed ==
    Dict([consensus_score |-> Num(0),
          should_continue |-> Bool(FALSE),
          reasoning |-> Str(<<TXT("Unable to parse moderation response")>>),
          key_disagreements |-> List(<<>>),
          key_agreements |-> List(<<>>),
          quality_score |-> Num(50)])

ModerationFallback ==
    Dict([consensus_score |-> Num(0),
          should_continue |-> Bool(TRUE),
          reasoning |-> Str(<<TXT("Unable to parse moderation response")>>),
          key_disagreements |-> List(<<>>),
          key_agreements |-> List(<<>>),
          quality_score |-> Num(50)])

parse_moderation(content) ==
    LET start == find(content, "{")
        end == rfind(content, "}") + 1
    IN IF start # -1 /\ end > start /\ ~JSONDecodeError(Slice(content, start, end))
       THEN json_loads(Slice(content, start, end))
       ELSE ModerationFallback

\* should_stop_early raises TypeError when consensus_score is not a number
should_stop_early_raises(moderation) ==
    ~Comparable(Get(moderation, "consensus_score", Num(0)))

\* mutant: the consensus score is not looked at
should_stop_early_IgnoresConsensus(moderation, threshold) ==
    ~Truthy(Get(moderation, "should_continue", Bool(TRUE)))

should_stop_early(moderation, threshold) ==
    LET consensus == Get(moderation, "consensus_score", Num(0))
        should_continue_ == Get(moderation, "should_continue", Bool(TRUE))
    IN NumOf(consensus) >= threshold \/ ~Truthy(should_continue_)

\* ---------------------------------------------------------------- judge
\* mutant: the fallback verdict carries confidence 0.0
VerdictFallback_ZeroConfidence(content) ==
    Dict([verdict |-> Str(content),
          confidence |-> Num(0),
          reasoning |-> Str(<<TXT("Unable to parse structured verdict")>>),
          consensus_points |-> List(<<>>),
          dissenting_points |-> List(<<>>),
          recommendations |-> Str(<<>>)])

VerdictFallback(content) ==
    Dict([verdict |-> Str(content),
          confidence |-> Num(50),
          reasoning |-> Str(<<TXT("Unable to parse structured verdict")>>),
          consensus_points |-> List(<<>>),
          dissenting_points |-> List(<<>>),
          recommendations |-> Str(<<>>)])

parse_verdict(content) ==
    LET start == find(content, "{")
        end == rfind(content, "}") + 1
    IN IF start # -1 /\ end > start /\ ~JSONDecodeError(Slice(content, start, end))
       THEN json_loads(Slice(content, start, end))
       ELSE VerdictFallback(content)

\* ------------------------------------------- what the LLM backends return
\* provider.generate(...) -> {content, input_tokens, output_tokens, cost}
Response(content, input_tokens, output_tokens, cost) ==
    [content |-> content, input_tokens |-> input_tokens,
     output_tokens |-> output_tokens, cost |-> cost]

\* a debater's backend gives the same answer in every round of one run, as
\* the mock providers of tests/unit/test_agents.py do; which answer is chosen
\* per debater when the run starts
DebaterResponses ==
    { Response(<<TXT("pro")>>, 10, 5, 3),
      Response(<<TXT("con")>>, 0, 7, 0) }

ModeratorContents ==
    { <<TXT("The debate should continue.")>>,
      <<RB, TXT("then"), LB>>,
      <<LB, TXT("not json"), RB>>,
      <<TXT("json"), LB, KV("consensus_score", Num(85)),
        KV("should_continue", Bool(TRUE)), RB, TXT("end")>>,
      <<LB, KV("consensus_score", Num(50)), KV("should_continue", Bool(FALSE)), RB>>,
      <<LB, KV("consensus_score", Num(60)), KV("should_continue", Bool(TRUE)), RB>>,
      <<LB, RB>>,
      <<LB, KV("consensus_score", Str(<<TXT("high")>>)), RB>>,
      <<LB, KV("consensus_score", Str(<<TXT("high")>>)),
        KV("should_continue", Bool(FALSE)), RB>>,
      <<LB, KV("consensus_score", Num(150)), RB>> }

ModeratorResponses == { Response(c, 4, 2, 1) : c \in ModeratorContents }

JudgeContents ==
    { <<TXT("I think option A is better.")>>,
      <<TXT("Some text"), LB, KV("verdict", Str(<<TXT("A")>>)),
        KV("confidence", Num(90)),
        KV("dissenting_points", List(<<Str(<<TXT("B")>>)>>)), RB, TXT("more")>>,
      <<LB, RB>>,
      <<LB, TXT("not json"), RB>>,
      <<LB, KV("verdict", None), KV("confidence", None), RB>>,
      <<LB, KV("verdict", Str(<<TXT("A")>>)), RB, TXT("or"),
        LB, KV("verdict", Str(<<TXT("B")>>)), RB>> }

JudgeResponses == { Response(c, 6, 3, 2) : c \in JudgeContents }

\* ModeratorAgent(consensus_threshold=...), in hundredths
ConsensusThresholds == {0, 80}
ModeratorAgent(threshold) == [ty |-> "ModeratorAgent", n |-> threshold, l |-> <<>>]

DebaterIds == <<"debater_1", "debater_2", "debater_3", "debater_4">>

\* ---------------------------------------------------------------- state
VARIABLES
    state,            \* the DebateState threaded through the graph
    debaters,         \* create_debate_graph(debaters, ...): roster of agent ids
    moderator,        \* create_debate_graph(..., moderator): None or an agent
    backend,          \* what each debater's provider answers in this run
    node,             \* the node the compiled graph runs next
    error,            \* the exception the run has ended with ("" if none)
    i,                \* debate_node: index of the next debater (0 outside the loop)
    l_messages,       \* debate_node: local `messages`
    l_total_tokens,   \* debate_node: local `total_tokens`
    l_total_cost,     \* debate_node: local `total_cost`
    calls,            \* every provider.generate invocation so far, in order
    rounds,           \* how many times debate_node has run to its return
    now,              \* datetime.now()
    entries,          \* CostTracker._entries
    result,           \* what the last operation on the CostTracker returned
    summary           \* the CostSummary a caller of get_summary still holds

vars == <<state, debaters, moderator, backend, node, error, i, l_messages,
          l_total_tokens, l_total_cost, calls, rounds, now, entries, result,
          summary>>

\* create_message / BaseAgent._create_response_message
create_message(agent_id, agent_role, content, current_round, metadata) ==
    [agent_id |-> agent_id, agent_role |-> agent_role, content |-> content,
     round |-> current_round, metadata |-> metadata]

\* mutant: the agent tags its message with the round after the current one
ResponseMessage_NextRound(agent_id, agent_role, st, r) ==
    create_message(agent_id, agent_role, r.content, st.current_round + 1,
                   [input_tokens |-> r.input_tokens,
                    output_tokens |-> r.output_tokens,
                    cost |-> r.cost])

ResponseMessage(agent_id, agent_role, st, r) ==
    create_message(agent_id, agent_role, r.content, st.current_round,
                   [input_tokens |-> r.input_tokens,
                    output_tokens |-> r.output_tokens,
                    cost |-> r.cost])

create_initial_state(max_rounds, debater_count) ==
    [max_rounds |-> max_rounds,
     current_round |-> 0,
     debater_count |-> debater_count,
     messages |-> <<>>,
     phase |-> "init",
     should_continue |-> TRUE,
     early_consensus |-> FALSE,
     consensus_score |-> Num(0),
     judge_verdict |-> None,
     final_answer |-> None,
     confidence_score |-> None,
     dissenting_opinions |-> List(<<>>),
     total_tokens |-> 0,
     total_cost |-> 0,
     start_time |-> 0,
     end_time |-> None]

\* mutant: the reducer puts a node's messages in front of the transcript
Merge_Prepends(st, update) ==
    [k \in DOMAIN st |->
        IF k \in DOMAIN update
        THEN IF k = "messages" THEN update[k] \o st[k] ELSE update[k]
        ELSE st[k]]

\* the graph merges a node's returned dict into the state: `messages` has an
\* additive reducer, every other returned key overwrites
Merge(st, update) ==
    [k \in DOMAIN st |->
        IF k \in DOMAIN update
        THEN IF k = "messages" THEN st[k] \o update[k] ELSE update[k]
        ELSE st[k]]

\* BaseAgent._build_conversation_history with include_own_messages = True:
\* every message of the state, the agent's own as "assistant"
build_conversation_history(agent_id, st) ==
    [k \in 1..Len(st.messages) |->
        [role |-> IF st.messages[k].agent_id = agent_id THEN "assistant" ELSE "user",
         agent_role |-> st.messages[k].agent_role,
         agent_id |-> st.messages[k].agent_id,
         content |-> st.messages[k].content]]

\* mutant: the final round is looked for before the first
RoundInstruction_FinalFirst(st, history) ==
    IF st.current_round = st.max_rounds THEN "final round"
    ELSE IF st.current_round = 1 /\ history = <<>> THEN "initial position"
    ELSE "review and respond"

\* DebaterAgent._build_prompt, lines 116-131: the round instruction
RoundInstruction(st, history) ==
    IF st.current_round = 1 /\ history = <<>> THEN "initial position"
    ELSE IF st.current_round = st.max_rounds THEN "final round"
    ELSE "review and respond"

\* DebaterAgent._build_prompt: topic, history, round instruction
DebaterAgent_build_prompt(agent_id, st) ==
    LET history == build_conversation_history(agent_id, st) IN
    [body |-> history, instruction |-> RoundInstruction(st, history)]

IsDebaterMessage(msg) == msg.agent_role = "debater"

\* mutant: the judge is shown every message of the transcript
JudgeTranscript_AllMessages(st) ==
    [k \in 1..Len(st.messages) |->
        [agent_id |-> st.messages[k].agent_id,
         round |-> st.messages[k].round,
         content |-> st.messages[k].content]]

\* JudgeAgent._build_prompt, lines 105-109: the debater messages, each under
\* its agent_id and round
JudgeTranscript(st) ==
    LET shown == SelectSeq(st.messages, IsDebaterMessage) IN
    [k \in 1..Len(shown) |->
        [agent_id |-> shown[k].agent_id,
         round |-> shown[k].round,
         content |-> shown[k].content]]

JudgeAgent_build_prompt(st) ==
    [body |-> JudgeTranscript(st), instruction |-> "verdict"]

\* mutant: the moderator is shown the debater messages of every round
ModeratorArguments_AllRounds(st) ==
    LET shown == SelectSeq(st.messages, IsDebaterMessage) IN
    [k \in 1..Len(shown) |->
        [agent_id |-> shown[k].agent_id, content |-> shown[k].content]]

\* ModeratorAgent._build_prompt, lines 109-113: the debater messages whose
\* round is the current round
ModeratorArguments(st) ==
    LET InRound(msg) == msg.round = st.current_round
        round_messages == SelectSeq(st.messages, InRound)
        shown == SelectSeq(round_messages, IsDebaterMessage)
    IN [k \in 1..Len(shown) |->
           [agent_id |-> shown[k].agent_id, content |-> shown[k].content]]

ModeratorAgent_build_prompt(st) ==
    [body |-> ModeratorArguments(st), instruction |-> "moderation"]

\* the prompt act hands to provider.generate
build_prompt(agent_id, agent_role, st) ==
    CASE agent_role = "debater" -> DebaterAgent_build_prompt(agent_id, st)
      [] agent_role = "moderator" -> ModeratorAgent_build_prompt(st)
      [] OTHER -> JudgeAgent_build_prompt(st)

\* one agent.act(st) call with its provider.generate invocation, as seen by
\* the backend: `input` is the transcript of the state handed to act,
\* `prompt` what act built from it
Call(agent_id, agent_role, st, ok, r) ==
    [agent_id |-> agent_id, agent_role |-> agent_role, round |-> st.current_round,
     input |-> st.messages, prompt |-> build_prompt(agent_id, agent_role, st), ok |-> ok,
     content |-> r.content, input_tokens |-> r.input_tokens, output_tokens |-> r.output_tokens,
     cost |-> r.cost]

NoResponse == Response(<<>>, 0, 0, 0)

\* sums over the metadata of the calls that succeeded
RECURSIVE SumTokens(_)
SumTokens(log) ==
    IF log = <<>> THEN 0
    ELSE LET c == log[Len(log)] IN
         SumTokens(SubSeq(log, 1, Len(log) - 1))
           + (IF c.ok THEN c.input_tokens + c.output_tokens ELSE 0)

RECURSIVE SumCost(_)
SumCost(log) ==
    IF log = <<>> THEN 0
    ELSE LET c == log[Len(log)] IN
         SumCost(SubSeq(log, 1, Len(log) - 1)) + (IF c.ok THEN c.cost ELSE 0)

\* ---------------------------------------------------------- cost tracker
\* Python floats, here with a mantissa of MantissaBits bits: the spacing of
\* the representable numbers around x
RECURSIVE FloatUlp(_)
FloatUlp(x) == IF x < 2 ^ MantissaBits THEN 1 ELSE 2 * FloatUlp(x \div 2)

\* round to the nearest representable number, ties to the even mantissa
RoundFloat(x) ==
    LET u == FloatUlp(x)
        lo == (x \div u) * u
        r == x - lo
    IN IF 2 * r < u THEN lo
       ELSE IF 2 * r > u THEN lo + u
       ELSE IF (lo \div u) % 2 = 0 THEN lo ELSE lo + u

\* a + b on floats
fadd(a, b) == RoundFloat(a + b)

\* Python's sum() over a sequence of floats: 0 + x1 + x2 + ..., left to right
RECURSIVE fsum(_)
fsum(xs) ==
    IF xs = <<>> THEN 0
    ELSE fadd(fsum(SubSeq(xs, 1, Len(xs) - 1)), xs[Len(xs)])

\* CostEntry; cost is a float, in thousandths of a dollar (the timestamp is
\* never read)
CostEntry(provider, model, input_tokens, output_tokens, cost) ==
    [provider |-> provider, model |-> model, input_tokens |-> input_tokens,
     output_tokens |-> output_tokens, cost |-> cost]

\* the entries a caller adds
CostEntries ==
    { CostEntry("anthropic", "claude-sonnet", 100, 50, 1),
      CostEntry("openai", "gpt-4o", 200, 100, 5),
      CostEntry("anthropic", "claude-opus", 300, 150, 10) }

\* Python's sum() over a sequence of integers
RECURSIVE sum(_)
sum(xs) == IF xs = <<>> THEN 0 ELSE Head(xs) + sum(Tail(xs))

\* mutant: a key's cost is overwritten by the latest entry instead of added up
RECURSIVE GroupCost_Overwrites(_, _)
GroupCost_Overwrites(es, key) ==
    IF es = <<>> THEN <<>>
    ELSE LET rest == GroupCost_Overwrites(SubSeq(es, 1, Len(es) - 1), key)
             entry == es[Len(es)]
         IN [k \in DOMAIN rest \cup {entry[key]} |->
                IF k = entry[key] THEN entry.cost ELSE rest[k]]

\* get_summary, lines 98-103: the loop that fills by_provider / by_model
RECURSIVE GroupCost(_, _)
GroupCost(es, key) ==
    IF es = <<>> THEN <<>>
    ELSE LET rest == GroupCost(SubSeq(es, 1, Len(es) - 1), key)
             entry == es[Len(es)]
         IN [k \in DOMAIN rest \cup {entry[key]} |->
                IF k = entry[key]
                THEN fadd(IF k \in DOMAIN rest THEN rest[k] ELSE 0, entry.cost)
                ELSE rest[k]]

\* CostTracker.get_summary
get_summary(es) ==
    LET total_input == sum([k \in 1..Len(es) |-> es[k].input_tokens])
        total_output == sum([k \in 1..Len(es) |-> es[k].output_tokens])
    IN [total_cost |-> fsum([k \in 1..Len(es) |-> es[k].cost]),
        total_input_tokens |-> total_input,
        total_output_tokens |-> total_output,
        total_tokens |-> total_input + total_output,
        by_provider |-> GroupCost(es, "provider"),
        by_model |-> GroupCost(es, "model"),
        entries |-> es]

\* CostTracker.total_cost
total_cost(es) == fsum([k \in 1..Len(es) |-> es[k].cost])

\* CostTracker.total_tokens
total_tokens(es) == sum([k \in 1..Len(es) |-> es[k].input_tokens + es[k].output_tokens])

\* what an operation of the tracker handed back to its caller
Returns(op, value) == [op |-> op, value |-> value]

\* the state a run starts from: debater_count is the size of the roster
RosterState(max_rounds, roster) == create_initial_state(max_rounds, Len(roster))

\* the messages the debaters of a roster give in one round
RoundMessages(roster, answers, round) ==
    [k \in 1..Len(roster) |->
        create_message(roster[k], "debater", answers[k].content, round,
                       [input_tokens |-> answers[k].input_tokens,
                        output_tokens |-> answers[k].output_tokens,
                        cost |-> answers[k].cost])]

\* the transcript of the rounds before `round`
RECURSIVE PriorTranscript(_, _, _)
PriorTranscript(roster, answers, round) ==
    IF round <= 1 THEN <<>>
    ELSE PriorTranscript(roster, answers, round - 1)
           \o RoundMessages(roster, answers, round - 1)

\* the state a caller hands to RoundRobinStrategy.execute_round in a round
StrategyState(max_rounds, round, roster, answers) ==
    Merge(RosterState(max_rounds, roster),
          [phase |-> "debate",
           current_round |-> round,
           messages |-> PriorTranscript(roster, answers, round)])

\* a run of the graph from the initial state
InitGraph ==
    /\ \E max_rounds \in 0..MaxRounds : state = RosterState(max_rounds, debaters)
    /\ moderator \in {None} \cup {ModeratorAgent(t) : t \in ConsensusThresholds}
    /\ node = "initialize"

\* one call of RoundRobinStrategy.execute_round(debaters, state)
InitStrategy ==
    /\ \E max_rounds \in 1..MaxRounds : \E round \in 1..max_rounds :
          state = StrategyState(max_rounds, round, debaters, backend)
    /\ moderator = None
    /\ node = "execute_round"

\* a fresh CostTracker(), used on its own: no debate is running
InitTracker ==
    /\ debaters = <<>>
    /\ state = RosterState(1, debaters)
    /\ moderator = None
    /\ node = "tracker"

Init ==
    /\ \E n \in 0..MaxDebaters : debaters = SubSeq(DebaterIds, 1, n)
    /\ backend \in [1..Len(debaters) -> DebaterResponses]
    /\ InitGraph \/ InitStrategy \/ InitTracker
    /\ entries = <<>>
    /\ result = Returns("__init__", None)
    /\ summary = None
    /\ error = ""
    /\ i = 0
    /\ l_messages = <<>>
    /\ l_total_tokens = 0
    /\ l_total_cost = 0
    /\ calls = <<>>
    /\ rounds = 0
    /\ now = 1

Running == error = "" /\ node \notin {"END", "returned", "tracker"}

\* mutant: the failed call is tried again: the step stays where it is
Raise_Retries(e) ==
    UNCHANGED <<state, debaters, moderator, backend, node, error, i, l_messages,
                l_total_tokens, l_total_cost, rounds, now>>

\* mutant: a failing debate step still hands over what it has collected
Raise_KeepsPartial(e) ==
    /\ error' = e
    /\ i' = 0
    /\ l_messages' = <<>>
    /\ l_total_tokens' = 0
    /\ l_total_cost' = 0
    /\ state' = IF node = "debate"
                THEN Merge(state, [messages |-> l_messages,
                                   total_tokens |-> l_total_tokens,
                                   total_cost |-> l_total_cost])
                ELSE state
    /\ UNCHANGED <<debaters, moderator, backend, node, rounds, now>>

\* mutant: the exception is swallowed and the node is run again
Raise_Swallowed(e) ==
    /\ error' = error
    /\ i' = 0
    /\ l_messages' = <<>>
    /\ l_total_tokens' = 0
    /\ l_total_cost' = 0
    /\ UNCHANGED <<state, debaters, moderator, backend, node, rounds, now>>

\* an exception leaves the node: its locals are gone, the state is not merged
Raise(e) ==
    /\ error' = e
    /\ i' = 0
    /\ l_messages' = <<>>
    /\ l_total_tokens' = 0
    /\ l_total_cost' = 0
    /\ UNCHANGED <<state, debaters, moderator, backend, node, rounds, now>>

initialize_node ==
    /\ Running /\ node = "initialize"
    /\ state' = Merge(state, [phase |-> "debate",
                              current_round |-> 1,
                              start_time |-> now])
    /\ now' = now + 1
    /\ node' = "debate"
    /\ UNCHANGED <<debaters, moderator, backend, error, i, l_messages,
                   l_total_tokens, l_total_cost, calls, rounds>>
    /\ UNCHANGED <<entries, result, summary>>

\* debate_node, lines 48-50
debate_node_enter ==
    /\ Running /\ node = "debate" /\ i = 0
    /\ l_messages' = <<>>
    /\ l_total_tokens' = state.total_tokens
    /\ l_total_cost' = state.total_cost
    /\ i' = 1
    /\ UNCHANGED <<state, debaters, moderator, backend, node, error, calls, rounds, now>>
    /\ UNCHANGED <<entries, result, summary>>

\* mutant: the agent files its answer in the transcript of the state it was
\* handed
StateAfterAct_FilesAnswer(st, message) == [st EXCEPT !.messages = @ \o <<message>>]

\* the state an agent was handed, as act leaves it: _build_prompt and
\* _create_response_message only read it
StateAfterAct(st, message) == st

\* mutant: the debater is handed the state with this round's messages so far
DebaterInput_SeesRound(st, local) == [st EXCEPT !.messages = @ \o local]

\* debate_node, line 53: the state handed to debater.act is the node's input,
\* whatever the node has collected so far
DebaterInput(st, local) == st

\* debate_node, lines 52-59: one iteration; debater.act(state) returns
debate_node_act ==
    /\ Running /\ node = "debate" /\ i \in 1..Len(debaters)
    /\ LET r == backend[i]
           input == DebaterInput(state, l_messages)
           message == ResponseMessage(debaters[i], "debater", input, r)
       IN /\ l_messages' = Append(l_messages, message)
          /\ l_total_tokens' = l_total_tokens + message.metadata.input_tokens
                                              + message.metadata.output_tokens
          /\ l_total_cost' = l_total_cost + message.metadata.cost
          /\ calls' = Append(calls, Call(debaters[i], "debater", input, TRUE, r))
          /\ state' = StateAfterAct(state, message)
    /\ i' = i + 1
    /\ UNCHANGED <<debaters, moderator, backend, node, error, rounds, now>>
    /\ UNCHANGED <<entries, result, summary>>

\* debater.act(state) fails: provider.generate raises
debate_node_act_fails ==
    /\ Running /\ node = "debate" /\ i \in 1..Len(debaters)
    /\ calls' = Append(calls, Call(debaters[i], "debater",
                                   DebaterInput(state, l_messages), FALSE, NoResponse))
    /\ Raise("ProviderError")
    /\ UNCHANGED <<entries, result, summary>>

\* debate_node, lines 61-65, and the edge debate -> moderate
debate_node_return ==
    /\ Running /\ node = "debate" /\ i = Len(debaters) + 1
    /\ state' = Merge(state, [messages |-> l_messages,
                              total_tokens |-> l_total_tokens,
                              total_cost |-> l_total_cost])
    /\ node' = "moderate"
    /\ i' = 0
    /\ l_messages' = <<>>
    /\ l_total_tokens' = 0
    /\ l_total_cost' = 0
    /\ rounds' = rounds + 1
    /\ UNCHANGED <<debaters, moderator, backend, error, calls, now>>
    /\ UNCHANGED <<entries, result, summary>>

\* mutant: the conditional edge goes by the round counter, whatever the phase
route_after_moderate_ByRound(st) ==
    IF st.current_round >= st.max_rounds THEN "judge" ELSE "debate"

\* mutant: the conditional edge always goes to the judge
route_after_moderate_AlwaysJudge(st) == "judge"

route_after_moderate(st) == IF st.phase = "judge" THEN "judge" ELSE "debate"

\* mutant: the round counter moves on even when the debate goes to the judge
NoModeratorUpdate_AlwaysAdvances(st) ==
    LET current == st.current_round
        max_rounds == st.max_rounds
        should_continue == current < max_rounds
    IN [phase |-> IF should_continue THEN "debate" ELSE "judge",
        current_round |-> current + 1,
        should_continue |-> should_continue]

\* mutant: `current <= max_rounds`
NoModeratorUpdate_OffByOne(st) ==
    LET current == st.current_round
        max_rounds == st.max_rounds
        should_continue == current <= max_rounds
    IN [phase |-> IF should_continue THEN "debate" ELSE "judge",
        current_round |-> IF should_continue THEN current + 1 ELSE current,
        should_continue |-> should_continue]

\* what moderate_node returns when no moderator is configured, lines 72-80
NoModeratorUpdate(st) ==
    LET current == st.current_round
        max_rounds == st.max_rounds
        should_continue == current < max_rounds
    IN [phase |-> IF should_continue THEN "debate" ELSE "judge",
        current_round |-> IF should_continue THEN current + 1 ELSE current,
        should_continue |-> should_continue]

\* moderate_node, lines 70-80, and the conditional edge after it
moderate_node_no_moderator ==
    /\ Running /\ node = "moderate" /\ moderator = None
    /\ state' = Merge(state, NoModeratorUpdate(state))
    /\ node' = route_after_moderate(state')
    /\ UNCHANGED <<debaters, moderator, backend, error, i, l_messages,
                   l_total_tokens, l_total_cost, calls, rounds, now>>
    /\ UNCHANGED <<entries, result, summary>>

\* mutant: the moderate step adds the moderator's tokens and cost to the totals
ModerateUpdate_CountsModerator(st, message, threshold) ==
    LET moderation == parse_moderation(message.content)
        should_stop == should_stop_early(moderation, threshold)
        current == st.current_round
        max_rounds == st.max_rounds
        total_tokens_ == st.total_tokens + message.metadata.input_tokens
                                         + message.metadata.output_tokens
        total_cost_ == st.total_cost + message.metadata.cost
    IN IF should_stop \/ current >= max_rounds
       THEN [messages |-> <<message>>,
             phase |-> "judge",
             should_continue |-> FALSE,
             early_consensus |-> should_stop /\ current < max_rounds,
             consensus_score |-> Get(moderation, "consensus_score", Num(0)),
             total_tokens |-> total_tokens_,
             total_cost |-> total_cost_]
       ELSE [messages |-> <<message>>,
             phase |-> "debate",
             current_round |-> current + 1,
             should_continue |-> TRUE,
             consensus_score |-> Get(moderation, "consensus_score", Num(0)),
             total_tokens |-> total_tokens_,
             total_cost |-> total_cost_]

\* mutant: the moderate step keeps the moderator's message to itself
ModerateUpdate_DropsMessage(st, message, threshold) ==
    LET moderation == parse_moderation(message.content)
        should_stop == should_stop_early(moderation, threshold)
        current == st.current_round
        max_rounds == st.max_rounds
    IN IF should_stop \/ current >= max_rounds
       THEN [phase |-> "judge",
             should_continue |-> FALSE,
             early_consensus |-> should_stop /\ current < max_rounds,
             consensus_score |-> Get(moderation, "consensus_score", Num(0))]
       ELSE [phase |-> "debate",
             current_round |-> current + 1,
             should_continue |-> TRUE,
             consensus_score |-> Get(moderation, "consensus_score", Num(0))]

\* mutant: early_consensus is set whenever the moderator asks to stop
ModerateUpdate_EarlyAtCap(st, message, threshold) ==
    LET moderation == parse_moderation(message.content)
        should_stop == should_stop_early(moderation, threshold)
        current == st.current_round
        max_rounds == st.max_rounds
    IN IF should_stop \/ current >= max_rounds
       THEN [messages |-> <<message>>,
             phase |-> "judge",
             should_continue |-> FALSE,
             early_consensus |-> should_stop,
             consensus_score |-> Get(moderation, "consensus_score", Num(0))]
       ELSE [messages |-> <<message>>,
             phase |-> "debate",
             current_round |-> current + 1,
             should_continue |-> TRUE,
             consensus_score |-> Get(moderation, "consensus_score", Num(0))]

\* mutant: `if should_stop:` without `or current >= max_rounds`
ModerateUpdate_NoRoundCap(st, message, threshold) ==
    LET moderation == parse_moderation(message.content)
        should_stop == should_stop_early(moderation, threshold)
        current == st.current_round
        max_rounds == st.max_rounds
    IN IF should_stop
       THEN [messages |-> <<message>>,
             phase |-> "judge",
             should_continue |-> FALSE,
             early_consensus |-> should_stop /\ current < max_rounds,
             consensus_score |-> Get(moderation, "consensus_score", Num(0))]
       ELSE [messages |-> <<message>>,
             phase |-> "debate",
             current_round |-> current + 1,
             should_continue |-> TRUE,
             consensus_score |-> Get(moderation, "consensus_score", Num(0))]

\* what moderate_node returns once the moderator has answered, lines 84-105
ModerateUpdate(st, message, threshold) ==
    LET moderation == parse_moderation(message.content)
        should_stop == should_stop_early(moderation, threshold)
        current == st.current_round
        max_rounds == st.max_rounds
    IN IF should_stop \/ current >= max_rounds
       THEN [messages |-> <<message>>,
             phase |-> "judge",
             should_continue |-> FALSE,
             early_consensus |-> should_stop /\ current < max_rounds,
             consensus_score |-> Get(moderation, "consensus_score", Num(0))]
       ELSE [messages |-> <<message>>,
             phase |-> "debate",
             current_round |-> current + 1,
             should_continue |-> TRUE,
             consensus_score |-> Get(moderation, "consensus_score", Num(0))]

\* moderate_node, lines 82-105: moderator.act(state) returns
moderate_node ==
    /\ Running /\ node = "moderate" /\ moderator # None
    /\ \E r \in ModeratorResponses :
          LET message == ResponseMessage("moderator", "moderator", state, r) IN
          /\ calls' = Append(calls, Call("moderator", "moderator", state, TRUE, r))
          /\ IF should_stop_early_raises(parse_moderation(message.content))
             THEN Raise("TypeError")
             ELSE /\ state' = Merge(StateAfterAct(state, message),
                                     ModerateUpdate(state, message, moderator.n))
                  /\ node' = route_after_moderate(state')
                  /\ UNCHANGED <<debaters, moderator, backend, error, i, l_messages,
                                 l_total_tokens, l_total_cost, rounds, now>>
    /\ UNCHANGED <<entries, result, summary>>

\* moderator.act(state) fails
moderate_node_act_fails ==
    /\ Running /\ node = "moderate" /\ moderator # None
    /\ calls' = Append(calls, Call("moderator", "moderator", state, FALSE, NoResponse))
    /\ Raise("ProviderError")
    /\ UNCHANGED <<entries, result, summary>>

\* mutant: the judge step keeps the judge's message out of the transcript
JudgeUpdate_NoMessage(st, message, time) ==
    LET verdict == parse_verdict(message.content) IN
    [phase |-> "complete",
     judge_verdict |-> verdict,
     final_answer |-> Get(verdict, "verdict", Str(<<>>)),
     confidence_score |-> Get(verdict, "confidence", Num(50)),
     dissenting_opinions |-> Get(verdict, "dissenting_points", List(<<>>)),
     total_tokens |-> st.total_tokens + message.metadata.input_tokens
                                      + message.metadata.output_tokens,
     total_cost |-> st.total_cost + message.metadata.cost,
     end_time |-> Num(time)]

\* mutant: the judge step files its confidence as the consensus score too
JudgeUpdate_WritesConsensus(st, message, time) ==
    LET verdict == parse_verdict(message.content) IN
    [messages |-> <<message>>,
     phase |-> "complete",
     consensus_score |-> Get(verdict, "confidence", Num(50)),
     judge_verdict |-> verdict,
     final_answer |-> Get(verdict, "verdict", Str(<<>>)),
     confidence_score |-> Get(verdict, "confidence", Num(50)),
     dissenting_opinions |-> Get(verdict, "dissenting_points", List(<<>>)),
     total_tokens |-> st.total_tokens + message.metadata.input_tokens
                                      + message.metadata.output_tokens,
     total_cost |-> st.total_cost + message.metadata.cost,
     end_time |-> Num(time)]

\* mutant: the judge step forgets to stamp the end of the run
JudgeUpdate_NoEndTime(st, message, time) ==
    LET verdict == parse_verdict(message.content) IN
    [messages |-> <<message>>,
     phase |-> "complete",
     judge_verdict |-> verdict,
     final_answer |-> Get(verdict, "verdict", Str(<<>>)),
     confidence_score |-> Get(verdict, "confidence", Num(50)),
     dissenting_opinions |-> Get(verdict, "dissenting_points", List(<<>>)),
     total_tokens |-> st.total_tokens + message.metadata.input_tokens
                                      + message.metadata.output_tokens,
     total_cost |-> st.total_cost + message.metadata.cost]

\* mutant: the judge step reports its own call's tokens and cost only
JudgeUpdate_ResetsTotals(st, message, time) ==
    LET verdict == parse_verdict(message.content) IN
    [messages |-> <<message>>,
     phase |-> "complete",
     judge_verdict |-> verdict,
     final_answer |-> Get(verdict, "verdict", Str(<<>>)),
     confidence_score |-> Get(verdict, "confidence", Num(50)),
     dissenting_opinions |-> Get(verdict, "dissenting_points", List(<<>>)),
     total_tokens |-> message.metadata.input_tokens + message.metadata.output_tokens,
     total_cost |-> message.metadata.cost,
     end_time |-> Num(time)]

\* what judge_node returns once the judge has answered, lines 111-129
JudgeUpdate(st, message, time) ==
    LET verdict == parse_verdict(message.content) IN
    [messages |-> <<message>>,
     phase |-> "complete",
     judge_verdict |-> verdict,
     final_answer |-> Get(verdict, "verdict", Str(<<>>)),
     confidence_score |-> Get(verdict, "confidence", Num(50)),
     dissenting_opinions |-> Get(verdict, "dissenting_points", List(<<>>)),
     total_tokens |-> st.total_tokens + message.metadata.input_tokens
                                      + message.metadata.output_tokens,
     total_cost |-> st.total_cost + message.metadata.cost,
     end_time |-> Num(time)]

\* judge_node: judge.act(state) returns; the edge judge -> END
judge_node ==
    /\ Running /\ node = "judge"
    /\ \E r \in JudgeResponses :
          LET message == ResponseMessage("judge", "judge", state, r) IN
          /\ calls' = Append(calls, Call("judge", "judge", state, TRUE, r))
          /\ state' = Merge(StateAfterAct(state, message),
                             JudgeUpdate(state, message, now))
    /\ now' = now + 1
    /\ node' = "END"
    /\ UNCHANGED <<debaters, moderator, backend, error, i, l_messages,
                   l_total_tokens, l_total_cost, rounds>>
    /\ UNCHANGED <<entries, result, summary>>

\* judge.act(state) fails
judge_node_act_fails ==
    /\ Running /\ node = "judge"
    /\ calls' = Append(calls, Call("judge", "judge", state, FALSE, NoResponse))
    /\ Raise("ProviderError")
    /\ UNCHANGED <<entries, result, summary>>

\* mutant: the strategy leaves the state it was handed alone
StrategyStateUpdate_Blind(st, message) == st

\* execute_round, line 55: state["messages"] = list(state["messages"]) + [message]
StrategyStateUpdate(st, message) ==
    [st EXCEPT !.messages = @ \o <<message>>]

\* RoundRobinStrategy.execute_round, line 47
execute_round_enter ==
    /\ Running /\ node = "execute_round" /\ i = 0
    /\ l_messages' = <<>>
    /\ i' = 1
    /\ UNCHANGED <<state, debaters, moderator, backend, node, error,
                   l_total_tokens, l_total_cost, calls, rounds, now>>
    /\ UNCHANGED <<entries, result, summary>>

\* execute_round, lines 49-55: one iteration; debater.act(state) returns
execute_round_act ==
    /\ Running /\ node = "execute_round" /\ i \in 1..Len(debaters)
    /\ LET r == backend[i]
           message == ResponseMessage(debaters[i], "debater", state, r)
       IN /\ l_messages' = Append(l_messages, message)
          /\ state' = StrategyStateUpdate(StateAfterAct(state, message), message)
          /\ calls' = Append(calls, Call(debaters[i], "debater", state, TRUE, r))
    /\ i' = i + 1
    /\ UNCHANGED <<debaters, moderator, backend, node, error,
                   l_total_tokens, l_total_cost, rounds, now>>
    /\ UNCHANGED <<entries, result, summary>>

\* debater.act(state) fails inside execute_round
execute_round_act_fails ==
    /\ Running /\ node = "execute_round" /\ i \in 1..Len(debaters)
    /\ calls' = Append(calls, Call(debaters[i], "debater", state, FALSE, NoResponse))
    /\ Raise("ProviderError")
    /\ UNCHANGED <<entries, result, summary>>

\* execute_round, line 57: l_messages is the list handed back to the caller
execute_round_return ==
    /\ Running /\ node = "execute_round" /\ i = Len(debaters) + 1
    /\ node' = "returned"
    /\ i' = 0
    /\ UNCHANGED <<state, debaters, moderator, backend, error, l_messages,
                   l_total_tokens, l_total_cost, calls, rounds, now>>
    /\ UNCHANGED <<entries, result, summary>>

\* a state dict that lacks a key
WithoutKey(st, key) == [f \in DOMAIN st \ {key} |-> st[f]]

\* the strategies a caller may hold: RoundRobinStrategy(max_rounds)
StrategyMaxRounds == 0..(MaxRounds + 1)

\* mutant: the round at max_rounds is followed by another
should_continue_Inclusive(self_max_rounds, st, round_messages) ==
    LET current_round == IF "current_round" \in DOMAIN st THEN st.current_round ELSE 1
    IN current_round <= self_max_rounds

\* RoundRobinStrategy.should_continue, lines 73-74
should_continue(self_max_rounds, st, round_messages) ==
    LET current_round == IF "current_round" \in DOMAIN st THEN st.current_round ELSE 1
    IN current_round < self_max_rounds

\* the caller of execute_round asks the strategy whether to go on: with the
\* state it holds or one without current_round, with the round's messages or
\* none
should_continue_call ==
    /\ node = "returned" /\ error = ""
    /\ \E self_max_rounds \in StrategyMaxRounds :
       \E keyed \in BOOLEAN :
       \E round_messages \in {<<>>, l_messages} :
          LET st == IF keyed THEN state ELSE WithoutKey(state, "current_round") IN
          result' = Returns("should_continue",
                            [returned |-> should_continue(self_max_rounds, st, round_messages),
                             self_max_rounds |-> self_max_rounds,
                             keyed |-> keyed,
                             round_messages |-> round_messages])
    /\ UNCHANGED <<state, debaters, moderator, backend, node, error, i, l_messages,
                   l_total_tokens, l_total_cost, calls, rounds, now, entries, summary>>

\* mutant: the summary keeps the tracker's own list of entries
HeldSummary_SharesEntries(held, es) ==
    IF "entries" \in DOMAIN held THEN [held EXCEPT !.entries = es] ELSE held

\* get_summary, line 112: entries = list(self._entries) is a copy, and the
\* totals and maps of a summary are objects of its own, so a summary handed
\* out earlier is what it was after the tracker's list has changed
HeldSummary(held, es) == held

\* CostTracker.add, lines 78-86
add ==
    /\ node = "tracker" /\ Len(entries) < MaxEntries
    /\ \E e \in CostEntries : entries' = Append(entries, e)
    /\ result' = Returns("add", None)
    /\ summary' = HeldSummary(summary, entries')
    /\ UNCHANGED <<state, debaters, moderator, backend, node, error, i, l_messages,
                   l_total_tokens, l_total_cost, calls, rounds, now>>

\* mutant: reset drops the oldest entry only
ResetEntries_DropsFirst(es) == IF es = <<>> THEN es ELSE Tail(es)

\* CostTracker.reset, line 117: self._entries.clear()
ResetEntries(es) == <<>>

reset ==
    /\ node = "tracker"
    /\ entries' = ResetEntries(entries)
    /\ result' = Returns("reset", None)
    /\ summary' = HeldSummary(summary, entries')
    /\ UNCHANGED <<state, debaters, moderator, backend, node, error, i, l_messages,
                   l_total_tokens, l_total_cost, calls, rounds, now>>

\* a call of get_summary()
tracker_get_summary ==
    /\ node = "tracker"
    /\ result' = Returns("get_summary", get_summary(entries))
    /\ summary' = get_summary(entries)
    /\ UNCHANGED <<state, debaters, moderator, backend, node, error, i, l_messages,
                   l_total_tokens, l_total_cost, calls, rounds, now, entries>>

\* a read of the total_cost property
tracker_total_cost ==
    /\ node = "tracker"
    /\ result' = Returns("total_cost", total_cost(entries))
    /\ UNCHANGED summary
    /\ UNCHANGED <<state, debaters, moderator, backend, node, error, i, l_messages,
                   l_total_tokens, l_total_cost, calls, rounds, now, entries>>

\* a read of the total_tokens property
tracker_total_tokens ==
    /\ node = "tracker"
    /\ result' = Returns("total_tokens", total_tokens(entries))
    /\ UNCHANGED summary
    /\ UNCHANGED <<state, debaters, moderator, backend, node, error, i, l_messages,
                   l_total_tokens, l_total_cost, calls, rounds, now, entries>>

Next ==
    \/ initialize_node
    \/ debate_node_enter
    \/ debate_node_act
    \/ debate_node_act_fails
    \/ debate_node_return
    \/ moderate_node_no_moderator
    \/ moderate_node
    \/ moderate_node_act_fails
    \/ judge_node
    \/ judge_node_act_fails
    \/ execute_round_enter
    \/ execute_round_act
    \/ execute_round_act_fails
    \/ execute_round_return
    \/ should_continue_call
    \/ add
    \/ reset
    \/ tracker_get_summary
    \/ tracker_total_cost
    \/ tracker_total_tokens

Spec == Init /\ [][Next]_vars

\* the graph runs the scheduled node whenever there is one
FairSpec == Spec /\ WF_vars(Next)

TypeOK ==
    /\ state.phase \in {"init", "debate", "moderate", "judge", "synthesize", "complete"}
    /\ node \in {"initialize", "debate", "moderate", "judge", "END",
                "execute_round", "returned", "tracker"}
    /\ Len(entries) <= MaxEntries
    /\ result.op \in {"__init__", "add", "reset", "get_summary", "total_cost",
                      "total_tokens", "should_continue"}
    /\ error \in {"", "ProviderError", "TypeError"}
    /\ i \in 0..(Len(debaters) + 1)

\* ------------------------------------------------------- observations
\* some provider call of the run has failed
ProviderFailed == \E c \in 1..Len(calls) : ~calls[c].ok

\* how often an agent of a role has been invoked
Invocations(role) == Cardinality({c \in 1..Len(calls) : calls[c].agent_role = role})

\* how many messages of a role the transcript holds
Authored(role) ==
    Cardinality({m \in 1..Len(state.messages) : state.messages[m].agent_role = role})

Completed == state.phase = "complete"

LastMessage(st) == st.messages[Len(st.messages)]

\* ---------------------------------------------------------------- claims

\* C1: every run of the graph with max_rounds >= 1 in which every agent call returns,
\* whatever the content returned, eventually reaches phase 'complete' with a
\* verdict set, after at most max_rounds debate rounds.
C1_AlwaysCompletes ==
    (node = "initialize" /\ state.max_rounds >= 1) =>
        <>(\/ ProviderFailed
           \/ /\ Completed
              /\ state.judge_verdict # None
              /\ rounds <= state.max_rounds)

\* C2: state.phase changes only along
\* init -> debate -> moderate -> {debate | judge} -> complete.
C2_PhaseOrder ==
    [][state'.phase # state.phase =>
          <<state.phase, state'.phase>> \in
              { <<"init", "debate">>, <<"debate", "moderate">>,
                <<"moderate", "debate">>, <<"moderate", "judge">>,
                <<"judge", "complete">> }]_vars

\* C3: with max_rounds > 0, 0 <= current_round <= max_rounds in every
\* reachable state, whatever the moderator returns.
C3_RoundBounded ==
    state.max_rounds > 0 =>
        /\ 0 <= state.current_round
        /\ state.current_round <= state.max_rounds

\* a moderator that asked to continue in the last round, and the run went to
\* the judge with current_round still max_rounds
C3_Witness ==
    /\ moderator # None
    /\ state.max_rounds > 1
    /\ state.current_round = state.max_rounds
    /\ node = "judge"
    /\ LastMessage(state).agent_role = "moderator"
    /\ Truthy(Get(parse_moderation(LastMessage(state).content),
                  "should_continue", Bool(FALSE)))
    /\ ~state.early_consensus

\* C4: the judge is invoked exactly once per completed run, only when the
\* moderate step has set phase to 'judge'; once phase is 'complete' nothing
\* changes any more.
C4_JudgeOnce ==
    /\ [](Completed => Invocations("judge") = 1)
    /\ [][Invocations("judge")' # Invocations("judge") =>
             /\ state.phase = "judge"
             /\ Invocations("moderator")' = Invocations("moderator")
             /\ Invocations("debater")' = Invocations("debater")]_vars
    /\ [][~Completed]_vars

C4_Witness ==
    /\ Completed
    /\ node = "END"
    /\ Invocations("judge") = 1
    /\ rounds = 2

\* C5: with no moderator and max_rounds = N >= 1, when the judge is invoked
\* exactly N debate rounds have run, the transcript holds N * len(debaters)
\* debater messages and current_round = N.
C5_NoModeratorRounds ==
    (moderator = None /\ state.max_rounds >= 1 /\ node = "judge") =>
        /\ rounds = state.max_rounds
        /\ Authored("debater") = state.max_rounds * Len(debaters)
        /\ state.current_round = state.max_rounds

C5_Witness ==
    /\ moderator = None
    /\ node = "judge"
    /\ state.max_rounds = 2
    /\ Len(debaters) = 2
    /\ Authored("debater") = 4

C5_WitnessOneRound ==
    /\ moderator = None
    /\ node = "judge"
    /\ state.max_rounds = 1
    /\ rounds = 1

\* the text holds a JSON object somewhere
ContainsJSONObject(content) ==
    \E a \in 1..Len(content), b \in 1..Len(content) :
        a <= b /\ ~JSONDecodeError(SubSeq(content, a, b))

\* the step is a call of the role that returned; LastCall' is that call
Returned(role) ==
    /\ Len(calls') = Len(calls) + 1
    /\ calls'[Len(calls')].agent_role = role
    /\ calls'[Len(calls')].ok

Answer == calls'[Len(calls')].content

\* C6: with a moderator, if the moderation of round r < max_rounds has
\* consensus_score >= consensus_threshold, the moderate step sets phase to
\* 'judge', leaves current_round at r, sets early_consensus, and the judge
\* is next: no further debate round runs.
C6_EarlyConsensus ==
    /\ [][(/\ Returned("moderator")
           /\ state.current_round < state.max_rounds
           /\ LET score == Get(parse_moderation(Answer), "consensus_score", Num(0))
              IN Comparable(score) /\ NumOf(score) >= moderator.n)
          => /\ error' = ""
             /\ state'.phase = "judge"
             /\ state'.current_round = state.current_round
             /\ state'.early_consensus
             /\ node' = "judge"]_vars
    /\ [](state.early_consensus =>
             /\ rounds = state.current_round
             /\ state.phase \in {"judge", "complete"})

\* the scenario of the specification: threshold 0.8, round 1 scores 0.85
C6_Witness ==
    /\ moderator = ModeratorAgent(80)
    /\ Len(debaters) = 2
    /\ state.max_rounds = MaxRounds
    /\ state.consensus_score = Num(85)
    /\ state.phase = "judge"
    /\ state.current_round = 1
    /\ state.early_consensus
    /\ rounds = 1

\* an unparseable moderator answer leads to another round, or to the judge
\* in the last round
FailOpenStep ==
    /\ error' = ""
    /\ ~should_stop_early(parse_moderation(Answer), moderator.n)
    /\ IF state.current_round = state.max_rounds
       THEN /\ state'.phase = "judge"
            /\ node' = "judge"
            /\ state'.current_round = state.current_round
       ELSE /\ state'.phase = "debate"
            /\ node' = "debate"
            /\ state'.current_round = state.current_round + 1

C8_JudgeFallback ==
    [][(Returned("judge") /\ ~ContainsJSONObject(Answer))
       => /\ error' = ""
          /\ state'.phase = "complete"
          /\ Get(state'.judge_verdict, "verdict", None) = Str(Answer)
          /\ Get(state'.judge_verdict, "confidence", None) = Num(50)
          /\ Get(state'.judge_verdict, "consensus_points", None) = List(<<>>)
          /\ Get(state'.judge_verdict, "dissenting_points", None) = List(<<>>)
          /\ state'.final_answer = Str(Answer)
          /\ state'.confidence_score = Num(50)
          /\ state'.dissenting_opinions = List(<<>>)]_vars

C8_Witness ==
    /\ Completed
    /\ LastMessage(state).agent_role = "judge"
    /\ LastMessage(state).content = <<LB, TXT("not json"), RB>>
    /\ state.final_answer = Str(<<LB, TXT("not json"), RB>>)
    /\ state.confidence_score = Num(50)

\* C9: once an agent call has failed with a provider error the run has ended
\* with that error: phase is not 'complete', judge_verdict, final_answer,
\* confidence_score and end_time are unset, and no further step is taken.
C9_ProviderErrorSurfaces ==
    /\ [](ProviderFailed =>
             /\ error = "ProviderError"
             /\ state.phase # "complete"
             /\ state.judge_verdict = None
             /\ state.final_answer = None
             /\ state.confidence_score = None
             /\ state.end_time = None)
    /\ [][error = ""]_vars

\* the second debater of round 2 fails
C9_Witness ==
    /\ error = "ProviderError"
    /\ node = "debate"
    /\ Len(debaters) = 2
    /\ state.current_round = 2
    /\ calls[Len(calls)].agent_id = debaters[2]
    /\ ~calls[Len(calls)].ok
    /\ Len(state.messages) >= 2

\* C10: at the end of a completed run total_tokens and total_cost are the
\* sums of input_tokens + output_tokens and of cost over all successful
\* agent calls: debaters, moderator and judge.
C10_TotalsAreSums ==
    Completed =>
        /\ state.total_tokens = SumTokens(calls)
        /\ state.total_cost = SumCost(calls)

\* C11: total_tokens and total_cost are >= 0 and never decrease from one
\* state of a run to the next (every response of the backend has
\* non-negative token counts and cost).
C11_TotalsMonotone ==
    /\ [](state.total_tokens >= 0 /\ state.total_cost >= 0)
    /\ [][/\ state'.total_tokens >= state.total_tokens
          /\ state'.total_cost >= state.total_cost]_vars

\* a completed run whose totals grew in two debate rounds and in the judge step
C11_Witness ==
    /\ Completed
    /\ rounds = 2
    /\ Len(debaters) = 2
    /\ state.total_tokens > 9 + 2 * 7
    /\ state.total_cost > 2

\* the fields the judge step writes
VerdictFields ==
    <<state.judge_verdict, state.final_answer, state.confidence_score,
      state.dissenting_opinions, state.end_time>>

\* the step that sets phase to 'complete'
Completes == state.phase # "complete" /\ state'.phase = "complete"

RosterIndex(agent_id) == CHOOSE k \in 1..Len(debaters) : debaters[k] = agent_id

\* the positions of the debater messages of a round in a transcript
DebaterMessagesOf(messages, round) ==
    {m \in 1..Len(messages) : /\ messages[m].agent_role = "debater"
                              /\ messages[m].round = round}

\* C13: state.messages is append-only and ordered: a step only adds messages
\* at the end; the round numbers along the sequence are non-decreasing; the
\* debater messages of one round appear in roster order; and a message of a
\* round is only there once every earlier round has all its debater messages.
C13_AppendOnlyOrdered ==
    /\ [][/\ Len(state'.messages) >= Len(state.messages)
          /\ SubSeq(state'.messages, 1, Len(state.messages)) = state.messages]_vars
    /\ [](\A a, b \in 1..Len(state.messages) :
             a < b =>
                /\ state.messages[a].round <= state.messages[b].round
                /\ (/\ state.messages[a].agent_role = "debater"
                    /\ state.messages[b].agent_role = "debater"
                    /\ state.messages[a].round = state.messages[b].round)
                   => RosterIndex(state.messages[a].agent_id)
                        < RosterIndex(state.messages[b].agent_id))
    /\ [](\A m \in 1..Len(state.messages) :
             \A r \in 1..(state.messages[m].round - 1) :
                Cardinality(DebaterMessagesOf(state.messages, r)) = Len(debaters))

\* a completed run of two rounds with three debaters and a moderator
C13_Witness ==
    /\ Completed
    /\ moderator # None
    /\ Len(debaters) = 3
    /\ rounds = 2
    /\ Len(state.messages) = 2 * 3 + 2 + 1
    /\ state.messages[1].round = 1
    /\ LastMessage(state).round = 2

\* the step invokes the judge; the call is the last of calls'
JudgeInvoked ==
    /\ Len(calls') = Len(calls) + 1
    /\ calls'[Len(calls')].agent_role = "judge"

\* a transcript holds, for every round up to `round`, exactly one message of
\* every debater of the roster
CompleteTranscript(messages, round) ==
    \A r \in 1..round : \A k \in 1..Len(debaters) :
        Cardinality({m \in DebaterMessagesOf(messages, r) :
                        messages[m].agent_id = debaters[k]}) = 1

\* C14: when the judge is invoked the transcript it receives is complete: for
\* every round 1..current_round it holds exactly one message of every debater
\* of the roster, and no debater call is in flight or waiting to be merged.
C14_JudgeSeesCompleteTranscript ==
    /\ [][JudgeInvoked =>
             /\ calls'[Len(calls')].input = state.messages
             /\ CompleteTranscript(calls'[Len(calls')].input, state.current_round)
             /\ i = 0
             /\ l_messages = <<>>]_vars
    /\ [](node = "judge" =>
             /\ CompleteTranscript(state.messages, state.current_round)
             /\ rounds = state.current_round
             /\ Invocations("debater") = rounds * Len(debaters))

\* the judge was handed two full rounds of three debaters
C14_Witness ==
    /\ Completed
    /\ Len(debaters) = 3
    /\ state.current_round = 2
    /\ calls[Len(calls)].agent_role = "judge"
    /\ Cardinality(DebaterMessagesOf(calls[Len(calls)].input, 1)) = 3
    /\ Cardinality(DebaterMessagesOf(calls[Len(calls)].input, 2)) = 3

\* C15: in every completed run len(state.messages) >= state.debater_count
\* and every message in state.messages has 1 <= round <= max_rounds.
C15_MessagesWithinRounds ==
    Completed =>
        /\ Len(state.messages) >= state.debater_count
        /\ \A m \in 1..Len(state.messages) :
              /\ 1 <= state.messages[m].round
              /\ state.messages[m].round <= state.max_rounds

\* the same for the runs that start with max_rounds >= 1
C15_MessagesWithinRoundsPositive ==
    state.max_rounds >= 1 => C15_MessagesWithinRounds

\* the step in which one round of debate hands back its messages
RoundReturns ==
    \/ node = "debate" /\ node' = "moderate"
    \/ node = "execute_round" /\ node' = "returned"

\* the messages are those of the roster, in roster order, tagged with a round
RosterMessages(messages, round) ==
    /\ Len(messages) = Len(debaters)
    /\ \A k \in 1..Len(debaters) :
          /\ messages[k].agent_id = debaters[k]
          /\ messages[k].agent_role = "debater"
          /\ messages[k].round = round

\* the last len(debaters) calls are one successful act of every debater of the
\* roster, in roster order, and no other call was made for that round
RosterCalled(round) ==
    /\ Len(calls) >= Len(debaters)
    /\ \A k \in 1..Len(debaters) :
          LET c == calls[Len(calls) - Len(debaters) + k] IN
          c.agent_id = debaters[k] /\ c.agent_role = "debater" /\ c.ok /\ c.round = round
    /\ Cardinality({c \in 1..Len(calls) : /\ calls[c].agent_role = "debater"
                                          /\ calls[c].round = round}) = Len(debaters)

\* C16: one round of debate (RoundRobinStrategy.execute_round, and the
\* graph's debate step) calls act exactly once on every debater of the roster
\* and returns exactly len(debaters) messages, in roster order, each tagged
\* with round = state.current_round.
C16_RoundCallsEveryDebaterOnce ==
    [][RoundReturns =>
          /\ RosterMessages(l_messages, state.current_round)
          /\ RosterCalled(state.current_round)
          /\ state'.current_round = state.current_round]_vars

\* execute_round has returned the three messages of round 2
C16_Witness ==
    /\ node = "returned"
    /\ Len(debaters) = 3
    /\ state.current_round = 2
    /\ Len(l_messages) = 3
    /\ l_messages[3].agent_id = "debater_3"

\* the debate step of the graph has returned the three messages of round 2
C16_WitnessGraph ==
    /\ node = "moderate"
    /\ Len(debaters) = 3
    /\ state.current_round = 2
    /\ Cardinality(DebaterMessagesOf(state.messages, 2)) = 3

\* the run is one call of RoundRobinStrategy.execute_round
InStrategy == node \in {"execute_round", "returned"}

\* the transcript the caller handed to execute_round
PreRound == PriorTranscript(debaters, backend, state.current_round)

\* C17: sequential with visibility (RoundRobinStrategy.execute_round): the
\* k-th call of a round is the k-th debater's, and the transcript passed to
\* it is the pre-round transcript followed by the messages of debaters
\* 1..k-1 of the same round, in roster order.
C17_SequentialVisibility ==
    InStrategy =>
        \A k \in 1..Len(calls) :
            /\ calls[k].agent_id = debaters[k]
            /\ calls[k].input
                 = PreRound \o SubSeq(RoundMessages(debaters, backend,
                                                    state.current_round), 1, k - 1)

\* round 2 of three debaters: the first saw the three messages of round 1
\* only, the third saw them and the first two messages of round 2
C17_Witness ==
    /\ node = "returned"
    /\ Len(debaters) = 3
    /\ state.current_round = 2
    /\ Len(calls) = 3
    /\ Len(calls[1].input) = 3
    /\ \A m \in 1..3 : calls[1].input[m].round = 1
    /\ Len(calls[3].input) = 5
    /\ calls[3].input[4].agent_id = "debater_1" /\ calls[3].input[4].round = 2
    /\ calls[3].input[5].agent_id = "debater_2" /\ calls[3].input[5].round = 2

\* the debater calls made by the debate step of the graph
DebateCalls ==
    IF InStrategy THEN {}
    ELSE {c \in 1..Len(calls) : calls[c].agent_role = "debater"}

\* the step is a debater call of the graph's debate step
DebaterCalled ==
    /\ node = "debate"
    /\ Len(calls') = Len(calls) + 1
    /\ calls'[Len(calls')].agent_role = "debater"

\* C18: blind round (the graph's debate step): every debater of a round is
\* called with the state the step started with, whose messages are those of
\* earlier rounds only, whatever the debaters called before it have
\* answered; so all debaters of a round get the same input and no input
\* holds a message of the same round.
C18_BlindRound ==
    /\ [][DebaterCalled =>
             /\ calls'[Len(calls')].input = state.messages
             /\ state' = state]_vars
    /\ [](\A c \in DebateCalls :
             /\ \A m \in 1..Len(calls[c].input) :
                   calls[c].input[m].round < calls[c].round
             /\ \A d \in DebateCalls :
                   calls[d].round = calls[c].round =>
                      calls[d].input = calls[c].input)

\* round 2 of three debaters in the graph: all three were called with the
\* transcript of round 1, while two answers of round 2 were already collected
C18_Witness ==
    /\ node = "debate"
    /\ Len(debaters) = 3
    /\ state.current_round = 2
    /\ i = 4
    /\ Len(l_messages) = 3
    /\ calls[Len(calls)].agent_id = "debater_3"
    /\ calls[Len(calls)].round = 2
    /\ calls[Len(calls)].input = state.messages
    /\ calls[Len(calls) - 2].input = calls[Len(calls)].input
    /\ Len(calls[Len(calls)].input) >= 3

\* the caller's state after it has merged the messages execute_round returned
MergedByCaller == Merge(state, [messages |-> l_messages])

\* C19: RoundRobinStrategy.execute_round appends same-round messages only to
\* a local copy of the transcript: during the call and after it has returned
\* or raised, the messages of the state passed in by the caller are those of
\* before the call, so merging the returned messages into the state adds
\* each round message exactly once.
C19_CallerStateUnchanged ==
    InStrategy =>
        /\ state.messages = PreRound
        /\ node = "returned" =>
              \A k \in 1..Len(l_messages) :
                  Cardinality({m \in 1..Len(MergedByCaller.messages) :
                                 MergedByCaller.messages[m] = l_messages[k]}) = 1

\* tokens and cost of the debater messages of a transcript
RECURSIVE DebaterTokens(_)
DebaterTokens(messages) ==
    IF messages = <<>> THEN 0
    ELSE (IF Head(messages).agent_role = "debater"
          THEN Head(messages).metadata.input_tokens + Head(messages).metadata.output_tokens
          ELSE 0) + DebaterTokens(Tail(messages))

RECURSIVE DebaterCost(_)
DebaterCost(messages) ==
    IF messages = <<>> THEN 0
    ELSE (IF Head(messages).agent_role = "debater"
          THEN Head(messages).metadata.cost ELSE 0) + DebaterCost(Tail(messages))

\* C20: a debate round of the graph is all-or-nothing: no step inside the
\* debate step changes the state, so when a debater's call fails the run
\* stops with that error and messages, total_tokens and total_cost are as
\* they were before the round (the state holds no message of the round);
\* when the step returns, all len(debaters) messages of the
\* round are merged together with their tokens and cost.
C20_RoundAllOrNothing ==
    /\ [][(node = "debate" /\ node' = "debate") => state' = state]_vars
    /\ [][(DebaterCalled /\ ~calls'[Len(calls')].ok) =>
             /\ error' = "ProviderError"
             /\ node' = "debate"]_vars
    /\ [](node = "debate" =>
             DebaterMessagesOf(state.messages, state.current_round) = {})
    /\ [][(node = "debate" /\ node' = "moderate") =>
             /\ Len(l_messages) = Len(debaters)
             /\ state'.messages = state.messages \o l_messages
             /\ state'.total_tokens = state.total_tokens + DebaterTokens(l_messages)
             /\ state'.total_cost = state.total_cost + DebaterCost(l_messages)]_vars

\* the third debater of round 2 failed after the first two had answered: the
\* state holds round 1 only
C20_Witness ==
    /\ error = "ProviderError"
    /\ node = "debate"
    /\ Len(debaters) = 3
    /\ state.current_round = 2
    /\ calls[Len(calls)].agent_id = "debater_3"
    /\ ~calls[Len(calls)].ok
    /\ calls[Len(calls) - 1].ok
    /\ calls[Len(calls) - 1].round = 2
    /\ Authored("debater") = 3
    /\ state.total_tokens = DebaterTokens(SubSeq(state.messages, 1, 3))

\* C21: a configuration with max_rounds <= 0 is rejected when the state or
\* the graph is constructed: no run starts with it, so with max_rounds <= 0
\* the initialize step never runs and no agent is ever called.
C21_InvalidConfigurationRejected ==
    state.max_rounds <= 0 =>
        /\ state.phase = "init"
        /\ node = "initialize"
        /\ calls = <<>>

\* the run is a run of the graph
InGraph == node \in {"initialize", "debate", "moderate", "judge", "END"}

\* the tokens and cost accounted so far: the state's totals, or the totals the
\* debate step carries in its locals while it is collecting a round
AccountedTokens ==
    IF node = "debate" /\ i > 0 THEN l_total_tokens ELSE state.total_tokens

AccountedCost ==
    IF node = "debate" /\ i > 0 THEN l_total_cost ELSE state.total_cost

\* C22: cost accounting counts every successful agent call exactly once and
\* no failed call, also in runs that abort: after every prefix of a run of
\* the graph the accounted tokens and cost are the sums over exactly the
\* agent calls that have succeeded so far.
C22_EverySuccessfulCallAccounted ==
    InGraph =>
        /\ AccountedTokens = SumTokens(calls)
        /\ AccountedCost = SumCost(calls)

\* the same over the calls of debaters and judge only, in runs without a
\* failed call
C22_DebaterAndJudgeCallsAccounted ==
    (InGraph /\ ~ProviderFailed) =>
        LET counted == SelectSeq(calls, LAMBDA c : c.agent_role # "moderator") IN
        /\ AccountedTokens = SumTokens(counted)
        /\ AccountedCost = SumCost(counted)

\* a sequence is an initial part of another
IsPrefix(xs, ys) == Len(xs) <= Len(ys) /\ SubSeq(ys, 1, Len(xs)) = xs

\* C23 as stated: under every public operation of the CostTracker the list
\* of entries only grows at the end; no entry is ever removed or altered.
C23_LedgerAppendOnly ==
    [][IsPrefix(entries, entries')]_vars

\* C23: the ledger is append-only between resets: add appends exactly one
\* entry at the end and leaves the earlier entries as they are; get_summary,
\* total_cost and total_tokens leave the list unchanged; reset is the only
\* operation that removes entries, and it removes all of them.
C23_LedgerAppendOnlyBetweenResets ==
    /\ [][result'.op = "add" =>
             /\ Len(entries') = Len(entries) + 1
             /\ IsPrefix(entries, entries')
             /\ entries'[Len(entries')] \in CostEntries]_vars
    /\ [][result'.op \in {"get_summary", "total_cost", "total_tokens"} =>
             entries' = entries]_vars
    /\ [][~IsPrefix(entries, entries') =>
             result'.op = "reset" /\ entries' = <<>>]_vars

\* three entries were added one after the other
C23_Witness ==
    /\ node = "tracker"
    /\ result.op = "add"
    /\ Len(entries) = 3
    /\ entries[1] # entries[2]
    /\ entries[3].provider = "openai"

\* the ledger was reset
C23_WitnessReset ==
    /\ node = "tracker"
    /\ result.op = "reset"
    /\ entries = <<>>

\* the positions of a ledger whose entry has a value under a key
Keyed(es, key, value) == {k \in 1..Len(es) : es[k][key] = value}

\* the sum of an integer field over the entries of a ledger
RECURSIVE FieldSum(_, _)
FieldSum(es, field) ==
    IF es = <<>> THEN 0 ELSE es[1][field] + FieldSum(Tail(es), field)

\* the float sum of the costs at a set of positions, in ledger order
RECURSIVE CostSum(_, _)
CostSum(es, positions) ==
    IF positions = {} THEN 0
    ELSE LET k == CHOOSE p \in positions : \A q \in positions : q <= p
         IN fadd(CostSum(es, positions \ {k}), es[k].cost)

\* the values under a key, each once, in the order they first appear
RECURSIVE FirstSeen(_, _)
FirstSeen(es, key) ==
    IF es = <<>> THEN <<>>
    ELSE LET rest == FirstSeen(SubSeq(es, 1, Len(es) - 1), key)
             v == es[Len(es)][key]
         IN IF \E j \in 1..Len(rest) : rest[j] = v THEN rest ELSE Append(rest, v)

\* sum(by.values()): the float sum of the values of a map of a summary
ValueSum(by, es, key) ==
    LET order == FirstSeen(es, key) IN fsum([j \in 1..Len(order) |-> by[order[j]]])

\* a summary holds the sums over a ledger, overall and per key
SummaryOf(s, es) ==
    /\ s.entries = es
    /\ s.total_cost = CostSum(es, DOMAIN es)
    /\ s.total_input_tokens = FieldSum(es, "input_tokens")
    /\ s.total_output_tokens = FieldSum(es, "output_tokens")
    /\ s.total_tokens = s.total_input_tokens + s.total_output_tokens
    /\ DOMAIN s.by_provider = {es[k].provider : k \in DOMAIN es}
    /\ \A p \in DOMAIN s.by_provider :
          s.by_provider[p] = CostSum(es, Keyed(es, "provider", p))
    /\ DOMAIN s.by_model = {es[k].model : k \in DOMAIN es}
    /\ \A m \in DOMAIN s.by_model :
          s.by_model[m] = CostSum(es, Keyed(es, "model", m))
    /\ es = <<>> =>
          /\ s.total_cost = 0
          /\ s.total_tokens = 0
          /\ s.total_input_tokens = 0
          /\ s.total_output_tokens = 0
          /\ DOMAIN s.by_provider = {}
          /\ DOMAIN s.by_model = {}

\* what the two properties return agrees with the ledger
TotalsOf ==
    /\ result.op = "total_cost" => result.value = CostSum(entries, DOMAIN entries)
    /\ result.op = "total_tokens" =>
          result.value = FieldSum(entries, "input_tokens")
                           + FieldSum(entries, "output_tokens")

\* the distance of two numbers
Distance(a, b) == IF a >= b THEN a - b ELSE b - a

\* C24 as stated: after any sequence of add and reset, what get_summary,
\* total_cost and total_tokens return agrees with the entries added since
\* the last reset: total_cost is the sum of their costs, total_tokens the sum
\* of their input and output tokens, by_provider and by_model group the costs
\* by key and the values of each sum to total_cost, and an empty ledger
\* gives zeros and empty maps.
C24_SummaryAgreesWithEntries ==
    /\ [][result'.op = "reset" => entries' = <<>>]_vars
    /\ [](result.op = "get_summary" =>
             /\ SummaryOf(result.value, entries)
             /\ ValueSum(result.value.by_provider, entries, "provider")
                    = result.value.total_cost
             /\ ValueSum(result.value.by_model, entries, "model")
                    = result.value.total_cost)
    /\ []TotalsOf

\* C24: the same, with the values of by_provider and of by_model adding up to
\* total_cost up to the rounding of float addition: each is a float sum in
\* ledger order, so the grouped sums and the overall sum are rounded at
\* different points.
C24_SummaryAgreesUpToRounding ==
    /\ [][result'.op = "reset" => entries' = <<>>]_vars
    /\ [](result.op = "get_summary" =>
             /\ SummaryOf(result.value, entries)
             /\ Distance(ValueSum(result.value.by_provider, entries, "provider"),
                         result.value.total_cost)
                    <= Len(entries) * FloatUlp(result.value.total_cost)
             /\ Distance(ValueSum(result.value.by_model, entries, "model"),
                         result.value.total_cost)
                    <= Len(entries) * FloatUlp(result.value.total_cost))
    /\ []TotalsOf

\* the summary of test_get_summary: two anthropic models and one openai model
C24_Witness ==
    /\ result.op = "get_summary"
    /\ Len(entries) = 3
    /\ Cardinality(Keyed(entries, "provider", "anthropic")) = 2
    /\ Cardinality(Keyed(entries, "model", "claude-sonnet")) = 1
    /\ result.value.total_tokens = 900
    /\ result.value.by_provider["openai"] = 5
    /\ result.value.by_provider["anthropic"] = CostSum(entries, Keyed(entries, "provider", "anthropic"))
    /\ ValueSum(result.value.by_provider, entries, "provider") = result.value.total_cost

\* two entries of the same model are grouped under one key
C24_WitnessGrouped ==
    /\ result.op = "get_summary"
    /\ Len(entries) = 2
    /\ Cardinality(Keyed(entries, "model", "gpt-4o")) = 2
    /\ result.value.by_model["gpt-4o"] = 10

\* a summary whose by_model values do not add up to its total_cost
C24_WitnessRounding ==
    /\ result.op = "get_summary"
    /\ result.value.entries = entries
    /\ Len(entries) = 3
    /\ ValueSum(result.value.by_model, entries, "model") # result.value.total_cost

\* the graph was built with an empty list of debaters
EmptyRoster == InGraph /\ debaters = <<>>

\* the judge has been invoked exactly once, on a transcript without any
\* debater message
JudgedEmptyTranscript ==
    /\ Invocations("judge") = 1
    /\ calls[Len(calls)].agent_role = "judge"
    /\ DebaterMessagesOf(calls[Len(calls)].input, state.current_round) = {}
    /\ \A m \in 1..Len(calls[Len(calls)].input) :
          calls[Len(calls)].input[m].agent_role # "debater"

\* C25: a graph built with an empty debater list constructs, and its run
\* still reaches 'complete' (unless a provider call fails): each debate round
\* adds no message, the transcript contains no debater message, and the
\* judge is invoked exactly once, on the empty transcript.
C25_EmptyRosterCompletes ==
    /\ [](EmptyRoster =>
             /\ Authored("debater") = 0
             /\ Invocations("debater") = 0
             /\ Invocations("judge") <= 1
             /\ Completed => JudgedEmptyTranscript)
    /\ [][(EmptyRoster /\ node = "debate" /\ node' = "moderate") =>
             state'.messages = state.messages]_vars
    /\ (EmptyRoster /\ node = "initialize") =>
           <>(ProviderFailed \/ (Completed /\ JudgedEmptyTranscript))

\* the same, a run that stops with any error excused
C25_EmptyRosterCompletesOrRaises ==
    /\ [](EmptyRoster =>
             /\ Authored("debater") = 0
             /\ Invocations("debater") = 0
             /\ Invocations("judge") <= 1
             /\ Completed => JudgedEmptyTranscript)
    /\ [][(EmptyRoster /\ node = "debate" /\ node' = "moderate") =>
             state'.messages = state.messages]_vars
    /\ (EmptyRoster /\ node = "initialize") =>
           <>(error # "" \/ (Completed /\ JudgedEmptyTranscript))

\* the fields the moderate step decides
ModerationFields ==
    <<state.should_continue, state.early_consensus, state.consensus_score>>

\* C26: should_continue, early_consensus and consensus_score are written
\* only by the moderate step: the initialize, debate and judge steps (and a
\* round run by a strategy) leave all three unchanged.
C26_ModerationFieldsFrame ==
    /\ [][ModerationFields' # ModerationFields =>
             node = "moderate" /\ node' \in {"debate", "judge"}]_vars
    /\ [][(node \in {"initialize", "debate", "judge", "execute_round"}) =>
             ModerationFields' = ModerationFields]_vars

\* a completed run: the judge step, with a confidence of its own, has left
\* should_continue, early_consensus and consensus_score as the moderate step
\* of round 1 wrote them
C26_Witness ==
    /\ Completed
    /\ node = "END"
    /\ moderator # None
    /\ rounds = 1
    /\ state.consensus_score = Num(85)
    /\ state.early_consensus
    /\ ~state.should_continue
    /\ state.confidence_score = Num(90)

\* the debate is over: the moderate step has sent the run to the judge
DebateEnded == state.phase \in {"judge", "complete"}

\* C27: early_consensus is true exactly when a moderator is configured and
\* the debate was stopped by should_stop_early in a round r < max_rounds;
\* when the debate ends at current_round = max_rounds, early_consensus is
\* false even if the moderator reported consensus at or above the threshold.
C27_EarlyConsensusExactly ==
    /\ [][(Returned("moderator") /\ error' = "") =>
             state'.early_consensus
                = (/\ should_stop_early(parse_moderation(Answer), moderator.n)
                   /\ state.current_round < state.max_rounds)]_vars
    /\ [](state.early_consensus
             <=> (/\ moderator # None
                  /\ DebateEnded
                  /\ state.current_round < state.max_rounds))
    /\ []((DebateEnded /\ state.current_round >= state.max_rounds)
             => ~state.early_consensus)

\* the last round ended with consensus above the threshold: no early consensus
C27_Witness ==
    /\ moderator = ModeratorAgent(80)
    /\ state.phase = "judge"
    /\ state.max_rounds = 2
    /\ state.current_round = 2
    /\ state.consensus_score = Num(85)
    /\ LastMessage(state).agent_role = "moderator"
    /\ should_stop_early(parse_moderation(LastMessage(state).content), 80)
    /\ ~state.early_consensus

\* a score, in hundredths, lies in [0, 1]
UnitInterval(v) == v.ty = "num" /\ 0 <= v.n /\ v.n <= 100

\* C28: in every reachable state consensus_score lies in [0,1], and
\* confidence_score, once set, lies in [0,1], whatever values the
\* moderator's and the judge's parsed responses carry.
C28_ScoresInUnitInterval ==
    /\ UnitInterval(state.consensus_score)
    /\ Completed => UnitInterval(state.confidence_score)

\* the calls made on an agent in a round
CallsOn(agent_id, round) ==
    {c \in 1..Len(calls) : calls[c].agent_id = agent_id /\ calls[c].round = round}

\* C29: no agent call is retried: in one round every debater's act is invoked
\* at most once and the moderator's at most once, the judge's at most once
\* in a run, and once a call has failed no further agent call is made.
C29_NoRetry ==
    /\ [](\A r \in 1..(MaxRounds + 1) :
             /\ \A k \in 1..Len(debaters) : Cardinality(CallsOn(debaters[k], r)) <= 1
             /\ Cardinality(CallsOn("moderator", r)) <= 1)
    /\ [](Invocations("judge") <= 1)
    /\ [](\A c \in 1..Len(calls) : ~calls[c].ok => c = Len(calls))
    /\ [][ProviderFailed => calls' = calls]_vars

\* the moderator's call of round 2 failed, after three debaters had answered
\* in both rounds: it stays the last call
C29_Witness ==
    /\ error = "ProviderError"
    /\ Len(debaters) = 3
    /\ Len(calls) = 3 + 1 + 3 + 1
    /\ calls[Len(calls)].agent_role = "moderator"
    /\ calls[Len(calls)].round = 2
    /\ ~calls[Len(calls)].ok
    /\ \A c \in 1..(Len(calls) - 1) : calls[c].ok

\* the moderation of the answer a moderate step has just received
Moderation == parse_moderation(Answer)
ConsensusOf(moderation) == Get(moderation, "consensus_score", Num(0))
ShouldContinueOf(moderation) == Get(moderation, "should_continue", Bool(TRUE))

\* the early-stop rule of the specification, on a moderation whose score is
\* a number
StopRule(moderation, threshold) ==
    \/ NumOf(ConsensusOf(moderation)) >= threshold
    \/ ShouldContinueOf(moderation) = Bool(FALSE)

\* C30: should_stop_early is true exactly when consensus_score >=
\* consensus_threshold or should_continue is false, a missing
\* consensus_score read as 0.0 and a missing should_continue as true; and
\* should_continue = false stops the debate whatever the consensus score.
\* Seen at the moderate step of a round below max_rounds, which goes to the
\* judge exactly when should_stop_early is true.
C30_StopDecision ==
    [][(Returned("moderator") /\ state.current_round < state.max_rounds) =>
          /\ (/\ Comparable(ConsensusOf(Moderation))
              /\ ShouldContinueOf(Moderation).ty = "bool")
                => /\ error' = ""
                   /\ (state'.phase = "judge") = StopRule(Moderation, moderator.n)
          /\ ShouldContinueOf(Moderation) = Bool(FALSE)
                => /\ error' = ""
                   /\ state'.phase = "judge"
                   /\ node' = "judge"]_vars

\* the same rule for the moderations whose consensus_score is a number
C30_StopDecisionOnNumericScore ==
    [][(/\ Returned("moderator")
        /\ state.current_round < state.max_rounds
        /\ Comparable(ConsensusOf(Moderation))
        /\ ShouldContinueOf(Moderation).ty = "bool")
          => /\ error' = ""
             /\ (state'.phase = "judge") = StopRule(Moderation, moderator.n)
             /\ (state'.phase = "judge") => node' = "judge" /\ state'.early_consensus
             /\ (state'.phase # "judge")
                   => /\ state'.phase = "debate"
                      /\ state'.current_round = state.current_round + 1]_vars

\* should_continue = false with a score below the threshold stopped round 1
C30_WitnessExplicitStop ==
    /\ moderator = ModeratorAgent(80)
    /\ state.current_round = 1
    /\ state.max_rounds = MaxRounds
    /\ state.consensus_score = Num(50)
    /\ state.phase = "judge"
    /\ state.early_consensus

\* should_continue = false beside a score that is no number: the step raised
C30_WitnessRaised ==
    /\ error = "TypeError"
    /\ Len(calls) > 0
    /\ calls[Len(calls)].agent_role = "moderator"
    /\ Get(parse_moderation(calls[Len(calls)].content), "should_continue", Bool(TRUE))
          = Bool(FALSE)

\* positions of the transcript holding a message of a role and round
MessagesOf(role, round) ==
    {m \in 1..Len(state.messages) :
        state.messages[m].agent_role = role /\ state.messages[m].round = round}

\* C31: with a moderator configured the moderator is invoked exactly once
\* after every debate round and never otherwise; its message follows all
\* debater messages of that round, precedes every message of a later round
\* and the judge's, and carries the round it reviewed (current_round before
\* any increment).
C31_ModeratorOncePerRound ==
    /\ []((InGraph /\ moderator # None) =>
             /\ Invocations("moderator")
                   = IF node = "moderate" /\ error = "" THEN rounds - 1 ELSE rounds
             /\ \A c \in 1..Len(calls) :
                   calls[c].agent_role = "moderator" =>
                      /\ Len(debaters) > 0 =>
                            /\ c > 1
                            /\ calls[c - 1].agent_role = "debater"
                            /\ calls[c - 1].round = calls[c].round
                      /\ Cardinality({d \in 1..(c - 1) :
                                         /\ calls[d].agent_role = "debater"
                                         /\ calls[d].round = calls[c].round})
                            = Len(debaters))
    /\ []((InGraph /\ moderator = None) => Invocations("moderator") = 0)
    /\ [][(Returned("moderator") /\ error' = "") =>
             /\ Len(state'.messages) = Len(state.messages) + 1
             /\ SubSeq(state'.messages, 1, Len(state.messages)) = state.messages
             /\ state'.messages[Len(state'.messages)].agent_role = "moderator"
             /\ state'.messages[Len(state'.messages)].round = state.current_round]_vars
    /\ [](InGraph =>
             \A m \in 1..Len(state.messages) :
                state.messages[m].agent_role = "moderator" =>
                   /\ MessagesOf("moderator", state.messages[m].round) = {m}
                   /\ Cardinality(MessagesOf("debater", state.messages[m].round))
                         = Len(debaters)
                   /\ \A d \in MessagesOf("debater", state.messages[m].round) : d < m
                   /\ \A k \in (m + 1)..Len(state.messages) :
                         \/ state.messages[k].round > state.messages[m].round
                         \/ state.messages[k].agent_role = "judge")

\* two rounds of three debaters were each followed by the moderator, whose
\* second message carries round 2 and is followed by the judge's
C31_Witness ==
    /\ moderator # None
    /\ Len(debaters) = 3
    /\ state.phase = "complete"
    /\ state.current_round = 2
    /\ Len(state.messages) = 9
    /\ state.messages[4].agent_role = "moderator"
    /\ state.messages[4].round = 1
    /\ state.messages[8].agent_role = "moderator"
    /\ state.messages[8].round = 2
    /\ state.messages[9].agent_role = "judge"
    /\ Invocations("moderator") = 2

\* the calls made on debaters
DebaterCalls == {c \in 1..Len(calls) : calls[c].agent_role = "debater"}

\* C32: the debater's round instruction is 'initial position' when
\* current_round = 1 and the conversation history is empty, otherwise
\* 'final round' when current_round = max_rounds, otherwise 'review and
\* respond'; so in a run of the graph every debater of round 1 gets the
\* initial instruction (also when max_rounds = 1) and every debater of round
\* max_rounds > 1 the final one.
C32_RoundInstruction ==
    /\ \A c \in DebaterCalls :
          calls[c].prompt.instruction =
             IF calls[c].round = 1 /\ calls[c].input = <<>> THEN "initial position"
             ELSE IF calls[c].round = state.max_rounds THEN "final round"
             ELSE "review and respond"
    /\ InGraph =>
          \A c \in DebaterCalls :
             /\ calls[c].round = 1 => calls[c].prompt.instruction = "initial position"
             /\ (calls[c].round = state.max_rounds /\ state.max_rounds > 1)
                   => calls[c].prompt.instruction = "final round"

\* a graph run of three rounds: initial, review, final
C32_Witness ==
    /\ InGraph
    /\ state.max_rounds = 3
    /\ Len(debaters) = 2
    /\ Len(calls) >= 6
    /\ \E a, b, c \in DebaterCalls :
          /\ calls[a].round = 1 /\ calls[a].prompt.instruction = "initial position"
          /\ calls[b].round = 2 /\ calls[b].prompt.instruction = "review and respond"
          /\ calls[c].round = 3 /\ calls[c].prompt.instruction = "final round"

\* a graph run of one round only: its debaters get the initial instruction
C32_WitnessSingleRound ==
    /\ InGraph
    /\ state.max_rounds = 1
    /\ Len(debaters) = 2
    /\ Cardinality(DebaterCalls) = 2
    /\ \A c \in DebaterCalls : calls[c].prompt.instruction = "initial position"

\* a sequential round 1 of 1: the second debater has a history and is told
\* it is the final round
C32_WitnessSequential ==
    /\ node = "returned"
    /\ state.max_rounds = 1
    /\ Len(calls) = 2
    /\ calls[1].prompt.instruction = "initial position"
    /\ calls[2].prompt.instruction = "final round"

\* the debater-authored messages of a transcript, in transcript order
RECURSIVE DebaterAuthored(_)
DebaterAuthored(transcript) ==
    IF transcript = <<>> THEN <<>>
    ELSE IF Head(transcript).agent_role = "debater"
         THEN <<Head(transcript)>> \o DebaterAuthored(Tail(transcript))
         ELSE DebaterAuthored(Tail(transcript))

JudgeCalls == {c \in 1..Len(calls) : calls[c].agent_role = "judge"}

\* C33: the transcript in the judge's prompt is exactly the subsequence of
\* state.messages authored by debaters, in transcript order, each with its
\* own round number; moderator messages are never included.
C33_JudgePromptTranscript ==
    \A c \in JudgeCalls :
       LET body == calls[c].prompt.body
           authored == DebaterAuthored(calls[c].input)
       IN /\ Len(body) = Len(authored)
          /\ \A k \in 1..Len(body) :
                /\ body[k].agent_id = authored[k].agent_id
                /\ body[k].round = authored[k].round
                /\ body[k].content = authored[k].content
                /\ body[k].agent_id # "moderator"
          /\ Len(body) = rounds * Len(debaters)
          /\ \A k \in 1..Len(body) :
                /\ body[k].agent_id = debaters[((k - 1) % Len(debaters)) + 1]
                /\ body[k].round = ((k - 1) \div Len(debaters)) + 1

\* the judge was called on a transcript of two rounds with two moderator
\* messages in it: its prompt shows the six debater messages
C33_Witness ==
    /\ moderator # None
    /\ Len(debaters) = 3
    /\ \E c \in JudgeCalls :
          /\ Len(calls[c].input) = 8
          /\ calls[c].input[4].agent_role = "moderator"
          /\ Len(calls[c].prompt.body) = 6
          /\ calls[c].prompt.body[4].round = 2

ModeratorCalls == {c \in 1..Len(calls) : calls[c].agent_role = "moderator"}

\* positions of a transcript holding a debater's message of a round
ArgumentsOf(transcript, round) ==
    {m \in 1..Len(transcript) :
        transcript[m].agent_role = "debater" /\ transcript[m].round = round}

\* C34: the arguments in the moderator's prompt are exactly the
\* debater-authored messages whose round equals state.current_round, all
\* len(debaters) messages of the round just debated, and no message of an
\* earlier round or of a moderator.
C34_ModeratorPromptArguments ==
    \A c \in ModeratorCalls :
       LET body == calls[c].prompt.body
           transcript == calls[c].input
           first == Len(transcript) - Len(debaters)
       IN /\ Len(body) = Len(debaters)
          /\ Len(body) = Cardinality(ArgumentsOf(transcript, calls[c].round))
          /\ ArgumentsOf(transcript, calls[c].round) = (first + 1)..Len(transcript)
          /\ \A k \in 1..Len(body) :
                /\ body[k].agent_id = debaters[k]
                /\ body[k].agent_id = transcript[first + k].agent_id
                /\ body[k].content = transcript[first + k].content
                /\ transcript[first + k].round = calls[c].round
                /\ transcript[first + k].agent_role = "debater"

\* the moderator of round 2 sees the three arguments of round 2 out of a
\* transcript that also holds round 1 and its moderation
C34_Witness ==
    /\ Len(debaters) = 3
    /\ \E c \in ModeratorCalls :
          /\ calls[c].round = 2
          /\ Len(calls[c].input) = 7
          /\ calls[c].input[4].agent_role = "moderator"
          /\ Len(calls[c].prompt.body) = 3

\* C35: RoundRobinStrategy.should_continue(state, round_messages) is true
\* exactly when the state's current_round is below the strategy's
\* max_rounds, a missing current_round read as 1, whatever round_messages
\* holds; with the strategy's max_rounds equal to state.max_rounds it is the
\* decision the moderate step takes without a moderator.
C35_ShouldContinue ==
    /\ [](result.op = "should_continue" =>
             LET current == IF result.value.keyed THEN state.current_round ELSE 1 IN
             /\ result.value.returned = (current < result.value.self_max_rounds)
             /\ (result.value.keyed /\ result.value.self_max_rounds = state.max_rounds)
                   => /\ result.value.returned = NoModeratorUpdate(state).should_continue
                      /\ result.value.returned
                            = (NoModeratorUpdate(state).phase = "debate"))
    /\ [][(node = "moderate" /\ moderator = None /\ node' # node) =>
             /\ state'.should_continue = should_continue(state.max_rounds, state, <<>>)
             /\ (node' = "debate") = should_continue(state.max_rounds, state, <<>>)
             /\ (node' = "judge") = ~should_continue(state.max_rounds, state, <<>>)]_vars

\* round 3 of 3 with the round's messages at hand: no further round
C35_Witness ==
    /\ result.op = "should_continue"
    /\ result.value.keyed
    /\ state.current_round = 3
    /\ result.value.self_max_rounds = 3
    /\ result.value.round_messages # <<>>
    /\ ~result.value.returned

\* a state without current_round is read as round 1 of 3
C35_WitnessMissingRound ==
    /\ result.op = "should_continue"
    /\ ~result.value.keyed
    /\ state.current_round = 3
    /\ result.value.self_max_rounds = 3
    /\ result.value.round_messages = <<>>
    /\ result.value.returned

\* a caller holds a summary
Holding == "entries" \in DOMAIN summary

\* C36: get_summary, total_cost and total_tokens leave the ledger unchanged,
\* and a summary already returned is a snapshot: a later add or reset does
\* not change its totals or its entries list.
C36_ReadsAndSnapshots ==
    /\ [][result'.op \in {"get_summary", "total_cost", "total_tokens"}
             => entries' = entries]_vars
    /\ [][(Holding /\ result'.op \in {"add", "reset"}) =>
             /\ entries' # entries \/ entries = <<>>
             /\ summary'.entries = summary.entries
             /\ summary'.total_cost = summary.total_cost
             /\ summary'.total_tokens = summary.total_tokens
             /\ summary'.total_input_tokens = summary.total_input_tokens
             /\ summary'.total_output_tokens = summary.total_output_tokens
             /\ summary'.by_provider = summary.by_provider
             /\ summary'.by_model = summary.by_model]_vars
    /\ [](Holding => SummaryOf(summary, summary.entries))

\* a summary of two entries outlived a reset and a further add
C36_Witness ==
    /\ Holding
    /\ Len(summary.entries) = 2
    /\ summary.total_tokens = 450
    /\ Len(entries) = 1
    /\ entries[1] # summary.entries[1]
    /\ result.op = "add"

\* a summary of one entry is still held after two more were added
C36_WitnessAdd ==
    /\ Holding
    /\ Len(summary.entries) = 1
    /\ Len(entries) = 3
    /\ summary.total_cost = entries[1].cost
    /\ result.op = "add"

\* an agent call has just been made
Called == Len(calls') = Len(calls) + 1

LastCall == calls'[Len(calls')]

\* the fields of the state no step result of a call's node writes
ConfigurationFields(st) ==
    <<st.max_rounds, st.debater_count, st.start_time>>

\* C37: an agent call never changes shared state: act(state) of a debater,
\* the moderator or the judge leaves every field of the state it was handed,
\* messages included, and the agents' configuration unchanged, whether it
\* succeeds or fails; only the step's own result changes the state.
C37_ActLeavesState ==
    /\ [][debaters' = debaters /\ moderator' = moderator /\ backend' = backend]_vars
    /\ [][(Called /\ ~LastCall.ok) => state' = state]_vars
    /\ [][(Called /\ InGraph /\ LastCall.agent_role = "debater") => state' = state]_vars
    /\ [][(Called /\ LastCall.ok /\ LastCall.agent_role = "debater" /\ ~InGraph) =>
             /\ state'.messages = state.messages \o <<l_messages'[Len(l_messages')]>>
             /\ \A f \in DOMAIN state \ {"messages"} : state'[f] = state[f]]_vars
    /\ [][(Called /\ LastCall.ok /\ LastCall.agent_role \in {"moderator", "judge"}) =>
             /\ LastCall.input = state.messages
             /\ \/ error' = "TypeError" /\ state' = state
                \/ /\ error' = ""
                   /\ Len(state'.messages) = Len(state.messages) + 1
                   /\ SubSeq(state'.messages, 1, Len(state.messages)) = state.messages
                   /\ state'.messages[Len(state'.messages)].agent_role
                         = LastCall.agent_role
             /\ ConfigurationFields(state') = ConfigurationFields(state)]_vars

\* the third debater of round 2 has answered and the state is what the
\* debate step was given: the transcript of round 1 and its moderation
C37_Witness ==
    /\ node = "debate"
    /\ i = 4
    /\ state.current_round = 2
    /\ Len(calls) = 7
    /\ Len(l_messages) = 3
    /\ Len(state.messages) = 4
    /\ calls[7].ok
    /\ calls[7].input = state.messages

Totals == <<state.total_tokens, state.total_cost>>

\* C38: the moderate step leaves total_tokens and total_cost unchanged in
\* both of its branches, with and without a moderator; only the debate step
\* and the judge step change them.
C38_ModerateLeavesTotals ==
    /\ [][node = "moderate" => Totals' = Totals]_vars
    /\ [][Totals' # Totals => node \in {"debate", "judge"}]_vars
    /\ [][(Returned("moderator") /\ error' = "") =>
             /\ LastCall.input_tokens + LastCall.output_tokens > 0
             /\ state'.total_tokens = state.total_tokens
             /\ state'.total_cost = state.total_cost]_vars

\* the moderator has answered round 2, at six tokens an answer, and the
\* totals are those of the six debater answers
C38_Witness ==
    /\ moderator # None
    /\ node \in {"debate", "judge"}
    /\ Len(debaters) = 3
    /\ rounds = 2
    /\ Invocations("moderator") = 2
    /\ error = ""
    /\ i = 0
    /\ state.total_tokens + 2 * 6 = SumTokens(calls)
    /\ state.total_tokens > 0

\* without a moderator round 1 was passed on and the totals are the round's
C38_WitnessNoModerator ==
    /\ moderator = None
    /\ node = "debate"
    /\ i = 0
    /\ state.current_round = 2
    /\ Len(debaters) = 2
    /\ state.total_tokens = SumTokens(calls)
    /\ state.total_tokens > 0

\* C39: in every reachable state phase is one of init, debate, judge,
\* complete: the debate step does not write phase, so phase stays 'debate'
\* while the moderate step runs, and the judge step runs exactly when the
\* moderate step has written phase 'judge', in which case should_continue
\* is false.
C39_PhaseValues ==
    /\ [](state.phase \in {"init", "debate", "judge", "complete"})
    /\ [](InGraph =>
             /\ (node = "initialize") = (state.phase = "init")
             /\ node \in {"debate", "moderate"} => state.phase = "debate"
             /\ (node = "judge") = (state.phase = "judge")
             /\ (node = "END") = (state.phase = "complete")
             /\ state.phase = "judge" => ~state.should_continue)
    /\ [][node = "debate" => state'.phase = state.phase]_vars
    /\ [][(node = "moderate" /\ node' = "judge") =>
             /\ state.phase = "debate"
             /\ state'.phase = "judge"
             /\ ~state'.should_continue]_vars
    /\ [][(Called /\ LastCall.agent_role = "judge") =>
             /\ state.phase = "judge"
             /\ ~state.should_continue
             /\ calls # <<>> => calls[Len(calls)].agent_role # "judge"]_vars

\* the moderate node is about to run on the second round: phase is 'debate'
C39_Witness ==
    /\ node = "moderate"
    /\ error = ""
    /\ rounds = 2
    /\ Len(debaters) = 2
    /\ state.phase = "debate"
    /\ state.should_continue

\* an early stop in round 1 of 3 wrote phase 'judge' and the judge has run
C39_WitnessEarlyStop ==
    /\ moderator # None
    /\ state.phase = "complete"
    /\ state.current_round = 1
    /\ state.max_rounds = 3
    /\ rounds = 1
    /\ ~state.should_continue
    /\ Invocations("judge") = 1

\* positions of the transcript holding a message of the judge
JudgeMessages ==
    {m \in 1..Len(state.messages) : state.messages[m].agent_role = "judge"}

\* C40: in every completed run there is exactly one judge-authored message
\* in state.messages; it is the last element of the sequence and its round
\* equals the final current_round.
C40_OneJudgeMessageLast ==
    /\ Completed =>
          /\ JudgeMessages = {Len(state.messages)}
          /\ Len(state.messages) >= 1
          /\ state.messages[Len(state.messages)].round = state.current_round
          /\ state.messages[Len(state.messages)].agent_id = "judge"
    /\ ~Completed => JudgeMessages = {}

\* a run of three rounds with moderator: the judge's message is the
\* thirteenth and last, and carries round 3
C40_Witness ==
    /\ Completed
    /\ moderator # None
    /\ Len(debaters) = 3
    /\ state.current_round = 3
    /\ Len(state.messages) = 13
    /\ state.messages[13].agent_role = "judge"
    /\ state.messages[13].round = 3
    /\ state.messages[12].agent_role = "moderator"

\* a run with an empty roster and no moderator: the judge's message is the
\* only one
C40_WitnessOnlyMessage ==
    /\ Completed
    /\ Len(debaters) = 0
    /\ moderator = None
    /\ Len(state.messages) = 1
    /\ state.messages[1].agent_role = "judge"

====
